---- MODULE Spec2Model ----
(***************************************************************************)
(* Model of tui-snake (src/main.py): the Board state-transition function   *)
(* Board.update with Board.new_apple, and the scene controller of          *)
(* Game (main / init / help_scene / loop / lost_scene).                    *)
(***************************************************************************)
EXTENDS Integers, Sequences, FiniteSets, TLC

\* Board extent passed to Game.init by main (30 x 20 in the source); the model
\* explores a smaller walled board.
Width == 5
Height == 4

\* ------------------------------------------------------------------------
\* Geometry and Direction

Direction == {"UP", "DOWN", "RIGHT", "LEFT"}

\* a fault of opposite: the RIGHT / LEFT pairs are forgotten
opposite_vertical(self, other) ==
    \/ self = "UP" /\ other = "DOWN"
    \/ self = "DOWN" /\ other = "UP"

opposite(self, other) ==
    \/ self = "UP" /\ other = "DOWN"
    \/ self = "DOWN" /\ other = "UP"
    \/ self = "RIGHT" /\ other = "LEFT"
    \/ self = "LEFT" /\ other = "RIGHT"

Point(x, y) == [x |-> x, y |-> y]

PointAdd(self, other) == Point(self.x + other.x, self.y + other.y)

units ==
    [d \in Direction |->
        CASE d = "UP" -> Point(0, -1)
          [] d = "DOWN" -> Point(0, 1)
          [] d = "RIGHT" -> Point(1, 0)
          [] d = "LEFT" -> Point(-1, 0)]

BodyPart(point, direction) == [point |-> point, direction |-> direction]

\* ------------------------------------------------------------------------
\* Python list helpers

\* `v in list`
In(v, list) == \E i \in 1..Len(list) : list[i] = v

\* list.remove(v): drops the first occurrence of v
ListRemove(list, v) ==
    LET i == CHOOSE j \in 1..Len(list) :
                 list[j] = v /\ \A k \in 1..(j - 1) : list[k] # v
    IN  SubSeq(list, 1, i - 1) \o SubSeq(list, i + 1, Len(list))

\* ------------------------------------------------------------------------
\* Snake and Board

body_points(snake) == [i \in 1..Len(snake.body) |-> snake.body[i].point]

\* the head is the last element of the deque (body[-1])
head(b) == b.snake.body[Len(b.snake.body)]

within_borders(b, point) ==
    /\ 0 <= point.x /\ point.x < b.width
    /\ 0 <= point.y /\ point.y < b.height

\* the points randint(0, width - 1) x randint(0, height - 1) can produce
RandomPoints(b) == {Point(x, y) : x \in 0..(b.width - 1), y \in 0..(b.height - 1)}

\* the retry condition of new_apple
Collides(b, apple) ==
    \/ apple \in b.obstacles
    \/ In(apple, b.apples)
    \/ In(apple, body_points(b.snake))

\* the points at which the retry of new_apple can stop
FreeCells(b) == {apple \in RandomPoints(b) : ~Collides(b, apple)}

\* new_apple, given the random point on which its retry stops
new_apple(b, apple) == [b EXCEPT !.apples = Append(@, apple)]

\* a fault of update: the eaten apple stays in the list
AfterRemove_keep(b, next_pos) == b

\* the board on which update calls new_apple: the eaten apple is removed
AfterRemove(b, next_pos) == [b EXCEPT !.apples = ListRemove(@, next_pos)]

NextPos(b, direction) == PointAdd(head(b).point, units[direction])

\* the branch of update that eats: lines 74-77
Eats(b, direction) ==
    /\ ~opposite(head(b).direction, direction)
    /\ In(NextPos(b, direction), b.apples)

\* a fault of the death test: the obstacles are not consulted
DeathCheck_body(b, next_pos) == In(next_pos, body_points(b.snake))

\* a fault of the death test: the body is not consulted
DeathCheck_obstacles(b, next_pos) == next_pos \in b.obstacles

\* lines 81-82
DeathCheck(b, next_pos) ==
    next_pos \in b.obstacles \/ In(next_pos, body_points(b.snake))

\* a fault of update: line 84 is left out, the previous head keeps its
\* stored direction
Advance_keep(b, next_pos, direction) ==
    [b EXCEPT !.snake.body = Append(@, BodyPart(next_pos, direction))]

\* a fault of update: the new head is given the previous head's direction
Advance_stale(b, next_pos, direction) ==
    LET n == Len(b.snake.body)
        turned == [b.snake.body EXCEPT ![n].direction = direction]
    IN  [b EXCEPT !.snake.body =
            Append(turned, BodyPart(next_pos, b.snake.body[n].direction))]

\* lines 84-85
Advance(b, next_pos, direction) ==
    LET n == Len(b.snake.body)
        turned == [b.snake.body EXCEPT ![n].direction = direction]
    IN  [b EXCEPT !.snake.body = Append(turned, BodyPart(next_pos, direction))]

\* a fault of update: the head is appended before the death test returns
update_headfirst(b, direction, apple) ==
    IF opposite(head(b).direction, direction)
    THEN [board |-> b, alive |-> TRUE]
    ELSE LET next_pos == NextPos(b, direction)
             b1 == IF In(next_pos, b.apples)
                   THEN [new_apple(AfterRemove(b, next_pos), apple)
                            EXCEPT !.score = @ + 1]
                   ELSE [b EXCEPT !.snake.body = Tail(@)]
         IN  [board |-> Advance(b1, next_pos, direction),
              alive |-> ~DeathCheck(b1, next_pos)]

\* a fault of update: score += 1 is left out
update_noscore(b, direction, apple) ==
    IF opposite(head(b).direction, direction)
    THEN [board |-> b, alive |-> TRUE]
    ELSE LET next_pos == NextPos(b, direction)
             b1 == IF In(next_pos, b.apples)
                   THEN new_apple(AfterRemove(b, next_pos), apple)
                   ELSE [b EXCEPT !.snake.body = Tail(@)]
         IN  IF DeathCheck(b1, next_pos)
             THEN [board |-> b1, alive |-> FALSE]
             ELSE [board |-> Advance(b1, next_pos, direction), alive |-> TRUE]

\* Board.update; apple is the point the random placement settles on (used
\* only when an apple is eaten).  The result is the board as mutated and the
\* returned flag.
update(b, direction, apple) ==
    IF opposite(head(b).direction, direction)
    THEN [board |-> b, alive |-> TRUE]
    ELSE LET next_pos == NextPos(b, direction)
             b1 == IF In(next_pos, b.apples)
                   THEN [new_apple(AfterRemove(b, next_pos), apple)
                            EXCEPT !.score = @ + 1]
                   ELSE [b EXCEPT !.snake.body = Tail(@)]
         IN  IF DeathCheck(b1, next_pos)
             THEN [board |-> b1, alive |-> FALSE]
             ELSE [board |-> Advance(b1, next_pos, direction), alive |-> TRUE]

\* ------------------------------------------------------------------------
\* Game controller

\* keys read by getch; "x" stands for every character without a meaning
Keys == {"a", "h", "s", "j", "w", "k", "d", "l", "q", "r", "x"}

DirectionKeys == {"a", "h", "s", "j", "w", "k", "d", "l"}

\* the match statement of Game.loop
KeyDirection(char) ==
    CASE char \in {"a", "h"} -> "LEFT"
      [] char \in {"s", "j"} -> "DOWN"
      [] char \in {"w", "k"} -> "UP"
      [] char \in {"d", "l"} -> "RIGHT"

NoBoard ==
    [width |-> 0, height |-> 0, obstacles |-> {}, snake |-> [body |-> <<>>],
     apples |-> <<>>, score |-> 0]

Perimeter(width, height) ==
    {p \in {Point(j, i) : j \in 0..(width - 1), i \in 0..(height - 1)} :
        p.y = 0 \/ p.y = height - 1 \/ p.x = 0 \/ p.x = width - 1}

\* a fault of Game.init: row 0 gets no obstacles
InitBoard_open(height, width) ==
    [width |-> width, height |-> height,
     obstacles |-> {p \in Perimeter(width, height) : p.y # 0},
     snake |-> [body |-> [i \in 1..3 |-> BodyPart(Point(i, 1), "RIGHT")]],
     apples |-> <<Point(width \div 2, height \div 2)>>,
     score |-> 0]

\* the Board built by Game.init
InitBoard(height, width) ==
    [width |-> width, height |-> height,
     obstacles |-> Perimeter(width, height),
     snake |-> [body |-> [i \in 1..3 |-> BodyPart(Point(i, 1), "RIGHT")]],
     apples |-> <<Point(width \div 2, height \div 2)>>,
     score |-> 0]

VARIABLES
    pc,        \* where main is: "main" (the test of while game.replay), the
               \* scene whose getch blocks ("HELP", "PLAYING", "LOST"),
               \* "EXITED", or "CRASHED" (uncaught RecursionError)
    replay,    \* Game.replay
    board,     \* Game.board
    char,      \* the last key read by getch
    is_alive,  \* the result of the last Board.update call
    scr,       \* Game.scr, the display handle: "none" before the first
               \* initscr, "held", "released" after curses.endwin()
    endwin_calls, \* curses.endwin() calls so far
    painted,   \* the board as the renderer last painted it; NoBoard when
               \* nothing was painted since the screen was cleared
    depth      \* lost_scene frames on the call stack

vars == <<pc, replay, board, char, is_alive, scr, endwin_calls, painted,
          depth>>

\* self.scr = curses.initscr(), line 153: a handle is returned whatever the
\* handle held before
initscr(old) == "held"

Init ==
    /\ pc = "main"
    /\ replay = TRUE
    /\ board = NoBoard
    /\ char = "x"
    /\ is_alive = TRUE
    /\ scr = "none"
    /\ endwin_calls = 0
    /\ painted = NoBoard
    /\ depth = 0

\* a fault of Game.init: a board that exists is kept
GameInit_keep ==
    /\ pc = "main"
    /\ replay
    /\ board' = IF board = NoBoard THEN InitBoard(Height, Width) ELSE board
    /\ scr' = initscr(scr)
    /\ painted' = NoBoard
    /\ pc' = "HELP"
    /\ UNCHANGED <<replay, char, is_alive, endwin_calls, depth>>

\* main: while game.replay -> game.init(Height, Width), then help_scene up to
\* its getch (the screen is cleared and shows the help text)
GameInit ==
    /\ pc = "main"
    /\ replay
    /\ board' = InitBoard(Height, Width)
    /\ scr' = initscr(scr)
    /\ painted' = NoBoard
    /\ pc' = "HELP"
    /\ UNCHANGED <<replay, char, is_alive, endwin_calls, depth>>

\* main: game.replay is False -> game.deinit() and the process ends
MainExit ==
    /\ pc = "main"
    /\ ~replay
    /\ endwin_calls' = endwin_calls + 1
    /\ scr' = "released"
    /\ pc' = "EXITED"
    /\ UNCHANGED <<replay, board, char, is_alive, painted, depth>>

\* a fault of help_scene: q exits the process without deinit
HelpScene_nodeinit ==
    /\ pc = "HELP"
    /\ \E c \in Keys :
        /\ char' = c
        /\ pc' = IF c = "q" THEN "EXITED" ELSE "PLAYING"
        /\ painted' = IF c = "q" THEN painted ELSE board
    /\ UNCHANGED <<replay, board, is_alive, scr, endwin_calls, depth>>

\* help_scene: one key; q calls deinit and exits the process, any other key
\* starts the loop, which renders the board and waits in getch
HelpScene ==
    /\ pc = "HELP"
    /\ \E c \in Keys :
        /\ char' = c
        /\ pc' = IF c = "q" THEN "EXITED" ELSE "PLAYING"
        /\ endwin_calls' = IF c = "q" THEN endwin_calls + 1 ELSE endwin_calls
        /\ scr' = IF c = "q" THEN "released" ELSE scr
        /\ painted' = IF c = "q" THEN painted ELSE board
    /\ UNCHANGED <<replay, board, is_alive, depth>>

\* a fault of loop: the result of update is ignored
AfterUpdate_ignore(alive) == "PLAYING"

\* loop, lines 176-180: lost_scene after a death, else the loop goes on
AfterUpdate(alive) == IF alive THEN "PLAYING" ELSE "LOST"

\* a fault of loop: the board is never rendered again
Screen_stale(alive, b, shown) == shown

\* what the screen shows at the next getch after update returned: loop()
\* is entered again and renders b (line 158) when alive, lost_scene only adds
\* its prompt to what is shown when not (lines 176-177, 191)
Screen(alive, b, shown) == IF alive THEN b ELSE shown

\* loop: a direction key; Board.update returns.  When it returns True the
\* next loop() renders the board before its getch; when it returns False
\* lost_scene writes its prompt and waits, nothing is rendered.
LoopDirection ==
    /\ pc = "PLAYING"
    /\ \E c \in DirectionKeys :
        LET direction == KeyDirection(c)
            picks == IF Eats(board, direction)
                     THEN FreeCells(AfterRemove(board, NextPos(board, direction)))
                     ELSE {Point(0, 0)}
        IN  \E apple \in picks :
                LET r == update(board, direction, apple)
                IN  /\ char' = c
                    /\ board' = r.board
                    /\ is_alive' = r.alive
                    /\ pc' = AfterUpdate(r.alive)
                    /\ painted' = Screen(r.alive, r.board, painted)
                    /\ depth' = IF pc' = "LOST" THEN 1 ELSE 0
    /\ UNCHANGED <<replay, scr, endwin_calls>>

\* loop: a direction key onto an apple when new_apple finds every point of
\* the board taken: the recursion never stops on a point, RecursionError
\* leaves update after apples.remove and before score += 1
LoopSaturated ==
    /\ pc = "PLAYING"
    /\ \E c \in DirectionKeys :
        LET direction == KeyDirection(c)
            b1 == AfterRemove(board, NextPos(board, direction))
        IN  /\ Eats(board, direction)
            /\ FreeCells(b1) = {}
            /\ char' = c
            /\ board' = b1
            /\ pc' = "CRASHED"
    /\ UNCHANGED <<replay, is_alive, scr, endwin_calls, painted, depth>>

\* a fault of loop: q leaves the replay flag as it is
LoopQuit_stay ==
    /\ pc = "PLAYING"
    /\ char' = "q"
    /\ pc' = "main"
    /\ UNCHANGED <<replay, board, is_alive, scr, endwin_calls, painted, depth>>

\* loop: q
LoopQuit ==
    /\ pc = "PLAYING"
    /\ char' = "q"
    /\ replay' = FALSE
    /\ pc' = "main"
    /\ UNCHANGED <<board, is_alive, scr, endwin_calls, painted, depth>>

\* loop: case _ returns True; the next loop() renders the same board
LoopOther ==
    /\ pc = "PLAYING"
    /\ \E c \in Keys \ (DirectionKeys \cup {"q"}) : char' = c
    /\ painted' = board
    /\ UNCHANGED <<pc, replay, board, is_alive, scr, endwin_calls, depth>>

\* the keys lost_scene is given: it tells q and r from every other character,
\* and of the others one that means nothing anywhere and one direction key
LostKeys == {"q", "r", "x", "d"}

\* the frames of lost_scene the call stack has room for, standing for what
\* sys.getrecursionlimit() leaves under main and loop
RecursionLimit == 2

\* lost_scene, line 198: self.lost_scene() adds a frame; with no room left
\* the call raises RecursionError, which nothing catches
Retry(frames) ==
    IF frames < RecursionLimit
    THEN [scene |-> "LOST", depth |-> frames + 1]
    ELSE [scene |-> "CRASHED", depth |-> frames]

\* lost_scene: q / r set the flag and return through every frame to main,
\* any other key calls lost_scene again
LostScene ==
    /\ pc = "LOST"
    /\ \E c \in LostKeys :
        /\ char' = c
        /\ replay' = IF c = "q" THEN FALSE ELSE IF c = "r" THEN TRUE ELSE replay
        /\ pc' = IF c \in {"q", "r"} THEN "main" ELSE Retry(depth).scene
        /\ depth' = IF c \in {"q", "r"} THEN 0 ELSE Retry(depth).depth
    /\ UNCHANGED <<board, is_alive, scr, endwin_calls, painted>>

Next ==
    \/ GameInit
    \/ MainExit
    \/ HelpScene
    \/ LoopDirection
    \/ LoopSaturated
    \/ LoopQuit
    \/ LoopOther
    \/ LostScene

Spec == Init /\ [][Next]_vars

\* ------------------------------------------------------------------------
\* Vocabulary of the properties

\* the snake is alive: a session is running and no update has returned False
Alive == pc \in {"HELP", "PLAYING"}

\* this step is Board.update(d, _) called by loop
UpdateCall(d) ==
    pc = "PLAYING" /\ char' \in DirectionKeys /\ KeyDirection(char') = d

\* the call of this step returned (new_apple stopped on a point)
Returned == pc' # "CRASHED"

\* d points against e (stated on the unit vectors)
Against(d, e) == PointAdd(units[d], units[e]) = Point(0, 0)

Body == board.snake.body

Neck == Body[Len(Body) - 1]

\* the direction of the last key read
Dir == KeyDirection(char)

\* p is a cell of the outermost ring of the Width x Height grid
OnRing(p) ==
    /\ p.x \in 0..(Width - 1) /\ p.y \in 0..(Height - 1)
    /\ (p.x \in {0, Width - 1} \/ p.y \in {0, Height - 1})

\* ------------------------------------------------------------------------
\* C1  Reversal is a no-op: update(d, _) with d the opposite of the head's
\* stored direction returns True and leaves body, apples, score and
\* obstacles as they were.
C1_ReversalNoOp ==
    [][\A d \in Direction :
        (UpdateCall(d) /\ Against(d, head(board).direction))
            => /\ Returned /\ is_alive' /\ pc' = "PLAYING"
               /\ board'.snake.body = board.snake.body
               /\ board'.apples = board.apples
               /\ board'.score = board.score
               /\ board'.obstacles = board.obstacles]_vars

\* a reversal key was the last key loop read (the board has left its initial
\* state, so the key was read in this session's loop): the head still faces
\* against it
C1_Witness ==
    /\ pc = "PLAYING" /\ char \in DirectionKeys
    /\ board # InitBoard(Height, Width)
    /\ Against(Dir, head(board).direction)

\* C2  Apple replacement after eating: the consumed point is no longer an
\* apple, and the newly spawned apple is on no obstacle, no other apple and
\* no segment of the snake as it stands after the update.
C2_AppleReplaced ==
    [][\A d \in Direction :
        (UpdateCall(d) /\ Eats(board, d) /\ Returned)
            => LET next_pos == NextPos(board, d)
                   n == Len(board'.apples)
                   spawned == board'.apples[n]
               IN  /\ ~In(next_pos, board'.apples)
                   /\ spawned \notin board'.obstacles
                   /\ \A i \in 1..(n - 1) : board'.apples[i] # spawned
                   /\ ~In(spawned, body_points(board'.snake))]_vars

\* C3  Growth on apple: a non-reversal update onto an apple makes the snake
\* one longer and the score one higher.
C3_GrowthOnApple ==
    [][\A d \in Direction :
        (UpdateCall(d) /\ ~Against(d, head(board).direction)
                       /\ In(NextPos(board, d), board.apples))
            => /\ Len(board'.snake.body) = Len(board.snake.body) + 1
               /\ board'.score = board.score + 1]_vars

\* C4 as first stated: a plain move leaves the old body with its tail removed
\* and a new head BodyPart(next_pos, d) appended, nothing else changed.
C4_PlainMoveOriginal ==
    [][\A d \in Direction :
        (UpdateCall(d) /\ ~Against(d, head(board).direction)
                       /\ ~In(NextPos(board, d), board.apples)
                       /\ Returned /\ is_alive')
            => /\ board'.snake.body =
                    Append(Tail(board.snake.body), BodyPart(NextPos(board, d), d))
               /\ board'.score = board.score
               /\ board'.apples = board.apples]_vars

\* C4  Plain move: a non-reversal update onto a point that is no apple and
\* that returns True removes the tail, overwrites the stored direction of the
\* previous head with d and appends the new head BodyPart(next_pos, d); every
\* other segment keeps its point and direction, the length, the score and the
\* apples are unchanged.
C4_PlainMove ==
    [][\A d \in Direction :
        (UpdateCall(d) /\ ~Against(d, head(board).direction)
                       /\ ~In(NextPos(board, d), board.apples)
                       /\ Returned /\ is_alive')
            => LET old == board.snake.body
                   new == board'.snake.body
                   n == Len(old)
               IN  /\ Len(new) = n
                   /\ \A i \in 1..(n - 1) : new[i].point = old[i + 1].point
                   /\ \A i \in 1..(n - 2) : new[i].direction = old[i + 1].direction
                   /\ new[n - 1].direction = d
                   /\ new[n] = BodyPart(NextPos(board, d), d)
                   /\ board'.score = board.score
                   /\ board'.apples = board.apples]_vars

\* a turn was made by a plain move: the segment behind the head carries the
\* direction of the key, the one before it another direction, nothing eaten
C4_Witness ==
    /\ pc = "PLAYING" /\ char \in DirectionKeys /\ is_alive
    /\ board.score = 0
    /\ head(board) = BodyPart(PointAdd(Neck.point, units[Dir]), Dir)
    /\ Neck.direction = Dir
    /\ Body[Len(Body) - 2].direction # Dir

\* C5  Wall death: when head.point + unit(d) is a cell of the perimeter ring,
\* update(d, _) returns False, for every direction d.
C5_WallDeath ==
    [][\A d \in Direction :
        (UpdateCall(d) /\ OnRing(NextPos(board, d)))
            => Returned /\ ~is_alive' /\ pc' = "LOST"]_vars

\* the snake has died against the wall: a ring cell is beside the head, and
\* no body point other than the neck is, so the death was not a self-collision
C5_Witness ==
    /\ pc = "LOST" /\ ~is_alive
    /\ \E d \in Direction : OnRing(NextPos(board, d))
    /\ \A d \in Direction :
          In(NextPos(board, d), body_points(board.snake))
              => NextPos(board, d) = Neck.point

\* C6  Self-collision death: a non-reversal update onto the point of a
\* segment other than the tail returns False; onto the tail's point, when
\* that is no apple, it returns True with the head on that cell.
C6_SelfCollision ==
    [][\A d \in Direction :
        (UpdateCall(d) /\ ~Against(d, head(board).direction))
            => LET old == board.snake.body
                   next_pos == NextPos(board, d)
               IN  /\ (\E i \in 2..Len(old) : old[i].point = next_pos)
                        => Returned /\ ~is_alive' /\ pc' = "LOST"
                   /\ (old[1].point = next_pos /\ ~In(next_pos, board.apples))
                        => /\ Returned /\ is_alive' /\ pc' = "PLAYING"
                           /\ head(board').point = next_pos]_vars

\* C7  No overlapping segments: while the snake is alive no two BodyParts
\* have the same point.
C7_NoOverlap ==
    Alive => \A i, j \in 1..Len(Body) : Body[i].point = Body[j].point => i = j

\* an alive snake whose head has a body segment other than the neck beside it
C7_Witness ==
    /\ pc = "PLAYING" /\ Len(Body) >= 5
    /\ \E d \in Direction : \E i \in 1..(Len(Body) - 2) :
          Body[i].point = NextPos(board, d)

\* C8  Apple count: between update calls the apple list holds exactly one
\* point.
C8_OneApple ==
    pc \in {"HELP", "PLAYING", "LOST"} => Len(board.apples) = 1

\* several apples have been eaten and replaced
C8_Witness ==
    pc = "PLAYING" /\ board.score >= 2 /\ Len(board.apples) = 1

\* C9  No death by reversal into the neck: the head's stored direction is
\* the displacement from the neck to the head, and no update onto the neck's
\* point returns False.
C9_NoNeckDeath ==
    /\ [](Alive => head(board).point = PointAdd(Neck.point, units[head(board).direction]))
    /\ [][\A d \in Direction :
            (UpdateCall(d) /\ NextPos(board, d) = Neck.point)
                => Returned /\ is_alive' /\ pc' = "PLAYING"]_vars

\* the key pressed last pointed at the neck and the snake, having turned
\* before, is alive
C9_Witness ==
    /\ pc = "PLAYING" /\ char \in DirectionKeys /\ is_alive
    /\ NextPos(board, Dir) = Neck.point
    /\ head(board).direction # "RIGHT"

\* C10  Death leads to LOST and only death does: from PLAYING the controller
\* enters LOST exactly when a direction key's update returns False; it stays
\* in PLAYING when update returns True and on every key that is neither a
\* direction key nor q.
C10_LostIffDeath ==
    [][pc = "PLAYING" =>
        LET updateReturned(v) ==
                char' \in DirectionKeys /\ Returned /\ is_alive' = v
        IN  /\ pc' = "LOST" <=> updateReturned(FALSE)
            /\ updateReturned(TRUE) => pc' = "PLAYING"
            /\ char' \notin (DirectionKeys \cup {"q"}) => pc' = "PLAYING"]_vars

\* the LOST prompt waits after a direction key whose update reported death
C10_Witness ==
    pc = "LOST" /\ ~is_alive /\ char \in DirectionKeys

\* the board every session starts from, written out
StartBoard ==
    /\ board.score = 0
    /\ board.snake.body = << BodyPart(Point(1, 1), "RIGHT"),
                             BodyPart(Point(2, 1), "RIGHT"),
                             BodyPart(Point(3, 1), "RIGHT") >>
    /\ board.apples = << Point(Width \div 2, Height \div 2) >>
    /\ \A p \in board.obstacles : OnRing(p)
    /\ \A x \in 0..(Width - 1) : \A y \in 0..(Height - 1) :
          OnRing(Point(x, y)) => Point(x, y) \in board.obstacles
    /\ board.width = Width /\ board.height = Height

\* C11  Replay starts from the fixed initial board: whenever PLAYING is
\* entered the board has score 0, the snake [(1,1),(2,1),(3,1)] facing RIGHT,
\* one apple at the centre and exactly the perimeter ring as obstacles.
C11_FreshBoard ==
    [][(pc # "PLAYING" /\ pc' = "PLAYING") => StartBoard']_vars

\* PLAYING has been entered again after a death (the result of the last
\* update, of the session before, is False)
C11_Witness ==
    pc = "PLAYING" /\ ~is_alive /\ StartBoard /\ char # "r"

\* C12  q always quits: q in HELP exits at once; q in PLAYING or LOST clears
\* the replay flag and returns to main, whose only step with the flag cleared
\* is the exit: no scene is entered in between.
C12_QuitExits ==
    [][/\ (pc = "HELP" /\ char' = "q") => pc' = "EXITED"
       /\ (pc \in {"PLAYING", "LOST"} /\ char' = "q")
              => pc' = "main" /\ ~replay'
       /\ (pc = "main" /\ ~replay) => pc' = "EXITED"]_vars

\* the process has exited after q in PLAYING or in LOST
C12_Witness ==
    pc = "EXITED" /\ char = "q" /\ ~replay

\* C13  Display released exactly once: curses.endwin() has been called once
\* when the process has exited and not at all before, and nothing happens
\* after the exit.
C13_ReleasedOnce ==
    /\ [](/\ endwin_calls = (IF pc = "EXITED" THEN 1 ELSE 0)
          /\ (scr = "released") = (pc = "EXITED"))
    /\ [][pc # "EXITED"]_vars

\* an exit by q in HELP of a session that follows a death
C13_Witness ==
    pc = "EXITED" /\ replay /\ ~is_alive /\ endwin_calls = 1

\* this step runs Game.init, whose line 153 calls curses.initscr()
InitscrCall == pc = "main" /\ pc' = "HELP"

\* C14  Display acquired once: curses.initscr() is called only when no handle
\* has been acquired before; later session inits do not acquire again.
C14_AcquiredOnce ==
    [][InitscrCall => scr = "none"]_vars

\* C15  Unrecognized keys are silent no-ops: in PLAYING a key that is neither
\* a direction key nor q leaves board, result of the last update, replay flag
\* and scene as they are; in LOST a key other than q and r does the same,
\* however many such keys came before.
C15_OtherKeysNoOp ==
    [][/\ (pc = "PLAYING" /\ char' \notin (DirectionKeys \cup {"q"}))
            => /\ pc' = "PLAYING" /\ board' = board
               /\ is_alive' = is_alive /\ replay' = replay
       /\ (pc = "LOST" /\ char' \notin {"q", "r"})
            => pc' = "LOST" /\ board' = board /\ replay' = replay]_vars

\* C16 as first stated: after every update call that returns, the resulting
\* board is what the renderer has painted when the next key is read, the
\* board of a dead snake included.
C16_PaintedOriginal ==
    [][\A d \in Direction :
        (UpdateCall(d) /\ Returned) => painted' = board']_vars

\* C16  Every update result of a living snake is painted: after an update
\* that returns True the resulting board is painted before the next key is
\* read; after an update that reports death nothing is painted, the LOST
\* prompt waits with the board of before the update on the screen.
C16_Painted ==
    [][\A d \in Direction :
        (UpdateCall(d) /\ Returned)
            => /\ is_alive' => painted' = board'
               /\ ~is_alive' => painted' = board /\ painted' # board']_vars

\* the LOST prompt waits and the screen shows another board than the dead
\* snake's
C16_Witness ==
    pc = "LOST" /\ painted # NoBoard /\ painted # board

\* C17  Final state of a dead snake: when update returns False the body is
\* the body of before with its tail removed when next_pos was no apple, and
\* the very body of before when it was one: no head appended, no direction
\* changed.
C17_DeadSnake ==
    [][\A d \in Direction :
        (UpdateCall(d) /\ Returned /\ ~is_alive')
            => board'.snake.body =
                  IF In(NextPos(board, d), board.apples)
                  THEN board.snake.body
                  ELSE Tail(board.snake.body)]_vars

\* a snake that never ate has died: two segments are left
C17_Witness ==
    pc = "LOST" /\ ~is_alive /\ board.score = 0 /\ Len(Body) = 2

\* C18  Apple placement can always terminate: whenever update calls
\* new_apple some point of the grid is no obstacle, no apple and no body
\* point, and update returns with one point appended to the apples.
C18_FreeCellExists ==
    [][\A d \in Direction :
        (UpdateCall(d) /\ ~Against(d, head(board).direction)
                       /\ In(NextPos(board, d), board.apples))
            => /\ \E p \in RandomPoints(board) :
                    /\ p \notin board.obstacles
                    /\ ~In(p, ListRemove(board.apples, NextPos(board, d)))
                    /\ ~In(p, body_points(board.snake))
               /\ Returned
               /\ Len(board'.apples) = Len(board.apples)]_vars

\* C19  Length tracks score: while the snake is alive its length is
\* 3 + score (so at least 3), and within a session the score never
\* decreases.
C19_LengthIsScore ==
    /\ [](Alive => Len(Body) = 3 + board.score /\ Len(Body) >= 3)
    /\ [][(pc \in {"HELP", "PLAYING", "LOST"})
              => (board'.score >= board.score)]_vars

\* a living snake that has grown three times
C19_Witness ==
    pc = "PLAYING" /\ board.score = 3 /\ Len(Body) = 6

\* C20  The snake never leaves the walled interior: every body point, of a
\* living or a dead snake, has 1 <= x <= width - 2 and 1 <= y <= height - 2,
\* and update changes neither width, height nor the obstacles.
C20_InsideWalls ==
    /\ [](\A i \in 1..Len(Body) :
            /\ 1 <= Body[i].point.x /\ Body[i].point.x <= Width - 2
            /\ 1 <= Body[i].point.y /\ Body[i].point.y <= Height - 2)
    /\ [][\A d \in Direction :
            UpdateCall(d) => /\ board'.width = board.width
                             /\ board'.height = board.height
                             /\ board'.obstacles = board.obstacles]_vars

\* a snake has died with its head in the far corner of the interior
C20_Witness ==
    pc = "LOST" /\ head(board).point = Point(Width - 2, Height - 2)

====
